---- MODULE Spec2Model ----
(***************************************************************************)
(* A state-machine model of backend/server.py: a FastAPI service over a    *)
(* MongoDB database.  The state is the six collections of the database,    *)
(* the bearer tokens clients hold, the wall clock, the requests that are   *)
(* suspended at an `await`, and the response returned by the step that     *)
(* was just taken.                                                         *)
(*                                                                         *)
(* The event loop runs other requests at each `await`.  A handler that     *)
(* awaits once is one action.  A handler that awaits several times is one  *)
(* action per await: the first action is the dependency (the token check)  *)
(* with the first awaited operation and the code up to the next await,     *)
(* each later action is the next awaited operation with the code that      *)
(* follows it.  A value the code computes between two awaits, such as      *)
(* created_at, is therefore computed in the action of the earlier await    *)
(* and travels with the suspended request.                                 *)
(*                                                                         *)
(* Fields the code stores and never reads (name, phone, location,          *)
(* product_names, payment_type, payment_method, filename,                  *)
(* data, content_type, and created_at of users and files) are left out of  *)
(* the documents.                                                          *)
(* The handlers get_file and get_my_subscriptions only read, and no        *)
(* property below is about them; they are left out.                        *)
(* A uuid4 is a fresh identifier: the n-th document of a collection has    *)
(* id n, and no document is ever removed.                                  *)
(***************************************************************************)
EXTENDS Integers, Sequences, FiniteSets, TLC

VARIABLES
    users,           \* db.users: sequence of documents, in insertion order
    ad_requests,     \* db.ad_requests
    payments,        \* db.payments
    subscriptions,   \* db.subscriptions
    files,           \* db.files
    admin_settings,  \* db.admin_settings
    tokens,          \* the tokens register and login have handed out
    now,             \* datetime.now(timezone.utc), in days
    inflight,        \* the requests suspended at an await
    resp             \* the response returned by the step just taken

vars == <<users, ad_requests, payments, subscriptions, files, admin_settings,
          tokens, now, inflight, resp>>

db == <<users, ad_requests, payments, subscriptions, files, admin_settings>>

----------------------------------------------------------------------------
(* Bounds of the model *)

\* documents in ad_requests, payments, subscriptions, files and admin_settings
MaxDocs == 2
\* documents in users
MaxUsers == 3
\* tokens handed out
MaxTokens == 2
\* requests suspended at an await at the same time
MaxInflight == 2
\* the clock advances ClockStep days at a time and stops at MaxTime days
MaxTime == 34
ClockStep == 16

----------------------------------------------------------------------------
(* Program constants *)

JWT_SECRET == "your-secret-key-change-in-production"
TokenDays == 30
SubscriptionDays == 30
ListLimit == 1000
None == -1

(* Inputs *)

Emails == {"a@x.com", "b@x.com"}
\* the email of the client that registers where the email plays no part
StoreEmails == {"a@x.com"}
Passwords == {"p"}
WrongPasswords == {"q"}
AdStatusInputs == {"approved"}
\* None, as the value of an Optional[str] field of a request body
Unset == "<None>"
QrInputs == {Unset, "qr"}
\* other_info of AdRequestCreate: left out (the default ""), or null
OtherInfoInputs == {"", Unset}
\* other_info left out of the request body
OtherInfoDefault == {""}
FileIdInputs == {1}
PhotoInputs == {<<1>>}

----------------------------------------------------------------------------
(* The document store *)

\* a query document {field: value, ...} matches the documents that hold
\* each of its values; the empty query {} matches every document
AllDocs == <<>>

Matches(d, query) ==
    \A k \in DOMAIN query : k \in DOMAIN d /\ d[k] = query[k]

\* find_one: the index of the first document matching, 0 when none does
FindOne(coll, query) ==
    LET I == {i \in DOMAIN coll : Matches(coll[i], query)}
    IN  IF I = {} THEN 0 ELSE CHOOSE i \in I : \A j \in I : i <= j

InsertOne(coll, doc) == Append(coll, doc)

\* {"$set": fields}: the document with the given fields replaced or added
SetFields(d, fields) ==
    [k \in DOMAIN d \cup DOMAIN fields |->
        IF k \in DOMAIN fields THEN fields[k] ELSE d[k]]

\* update_one: $set on the first document matching
UpdateOne(coll, query, fields) ==
    LET i == FindOne(coll, query)
    IN  IF i = 0 THEN coll ELSE [coll EXCEPT ![i] = SetFields(coll[i], fields)]

MatchedCount(coll, query) == IF FindOne(coll, query) = 0 THEN 0 ELSE 1

Find(coll, query) == SelectSeq(coll, LAMBDA d : Matches(d, query))

\* find({field: {"$in": values}})
FindIn(coll, field, values) == SelectSeq(coll, LAMBDA d : d[field] \in values)

\* the sequences that hold the documents of s, each once
Orderings(s) ==
    {[i \in DOMAIN s |-> s[f[i]]] :
        f \in {g \in [DOMAIN s -> DOMAIN s] :
                  \A i, j \in DOMAIN s : g[i] = g[j] => i = j}}

\* sort("created_at", -1): the documents by decreasing created_at; the
\* database leaves the order of documents with equal created_at open
SortNewestFirst(s) ==
    {p \in Orderings(s) :
        \A i, j \in DOMAIN p : i < j => p[i].created_at >= p[j].created_at}

ToList(s, n) == SubSeq(s, 1, IF Len(s) < n THEN Len(s) ELSE n)

FileUrl(fid) == <<"/api/files/", fid>>

NoUrl == <<>>

\* a request names a stored document or one that is not stored
Ids(coll) == 1..(Len(coll) + 1)

----------------------------------------------------------------------------
(* Passwords and tokens *)

\* bcrypt with a random salt: the hash matches the password it was made of
hash_password(password) == <<"bcrypt", password>>

verify_password(password, hashed) == hashed = <<"bcrypt", password>>

\* jwt.encode: the payload and its HMAC under the key
jwt_encode(payload, key) == [payload |-> payload, sig |-> <<key, payload>>]

\* mutant: the exp claim is not checked
jwt_decode_ignoring_exp(token, key) == token.sig = <<key, token.payload>>

\* jwt.decode raises unless the signature is the payload's under the key
\* and the exp claim lies in the future
jwt_decode(token, key) == token.sig = <<key, token.payload>> /\ token.payload.exp > now

create_token(user_id, email, role) ==
    jwt_encode([user_id |-> user_id, email |-> email, role |-> role,
                exp |-> now + TokenDays], JWT_SECRET)

Anonymous == [user_id |-> 0, email |-> "", role |-> "", exp |-> 0]

NoToken == [payload |-> Anonymous, sig |-> <<"", Anonymous>>]

\* the dependency's outcome: the payload, or the error that ends the request
get_current_user(token) ==
    IF jwt_decode(token, JWT_SECRET)
    THEN [code |-> 200, token |-> token, user |-> token.payload]
    ELSE [code |-> 401, token |-> token, user |-> Anonymous]

\* mutant: the role is not checked
get_admin_user_any_role(token) == get_current_user(token)

get_admin_user(token) ==
    LET current_user == get_current_user(token)
    IN  IF current_user.code # 200 THEN current_user
        ELSE IF current_user.user.role # "admin"
        THEN [current_user EXCEPT !.code = 403]
        ELSE current_user

NoAuth == [code |-> 200, token |-> NoToken, user |-> Anonymous]

\* what a client without a valid token can present: a held token rewritten
\* to the admin role, and a token signed with a key of its own
ForgedTokens ==
    {[t EXCEPT !.payload.role = "admin"] : t \in tokens}
    \cup {jwt_encode([user_id |-> 1, email |-> "admin@x.com", role |-> "admin",
                      exp |-> MaxTime + TokenDays + 1], "another-key")}

----------------------------------------------------------------------------
(* Responses and suspended requests *)

Response(op, cu, arg, code, body, writes) ==
    [op |-> op, token |-> cu.token, user |-> cu.user, arg |-> arg,
     code |-> code, body |-> body, writes |-> writes]

NoResponse == Response("none", NoAuth, 0, 0, "", 0)

Slots == DOMAIN inflight

\* the event loop has room for one more suspended request
CanSuspend == Len(inflight) < MaxInflight

Suspend(r) == Append(inflight, r)

Resume(s, r) == [inflight EXCEPT ![s] = r]

\* the request in slot s has returned
Done(s) == SubSeq(inflight, 1, s - 1) \o SubSeq(inflight, s + 1, Len(inflight))

\* the suspended requests of the handlers named, which will still insert
PendingInserts(ops) == Cardinality({s \in Slots : inflight[s].op \in ops})

\* the documents stored and about to be stored, users apart
DocCount ==
    Len(ad_requests) + Len(payments) + Len(subscriptions) + Len(files)
    + Len(admin_settings)
    + PendingInserts({"upload_file", "create_ad_request", "create_payment",
                      "create_subscription", "get_admin_settings"})

----------------------------------------------------------------------------
(* Initial states *)

SeedAdmin ==
    [id |-> 1, email |-> "admin@x.com", password |-> hash_password("p"),
     role |-> "admin"]

ClientA ==
    [id |-> 2, email |-> "a@x.com", password |-> hash_password("p"),
     role |-> "client"]

ClientB ==
    [id |-> 3, email |-> "b@x.com", password |-> hash_password("p"),
     role |-> "client"]

EmptyDb ==
    /\ ad_requests = <<>>
    /\ payments = <<>>
    /\ subscriptions = <<>>
    /\ files = <<>>
    /\ admin_settings = <<>>
    /\ inflight = <<>>
    /\ resp = NoResponse

\* the users are registered and each has logged in at day 0
LoggedIn(registered) ==
    /\ users = registered
    /\ now = 0
    /\ tokens = {create_token(registered[i].id, registered[i].email,
                              registered[i].role) : i \in DOMAIN registered}
    /\ EmptyDb

\* The database holds an administrator (no handler creates one) and a client.
Init == LoggedIn(<<SeedAdmin, ClientA>>)

\* The same, with a second client.
InitAds == LoggedIn(<<SeedAdmin, ClientA, ClientB>>)

\* The database holds the administrator only, who has logged in; clients
\* come by registering.
InitStore == LoggedIn(<<SeedAdmin>>)

\* The database holds the administrator only; nobody has logged in yet.
InitAuth ==
    /\ users = <<SeedAdmin>>
    /\ now = 0
    /\ tokens = {}
    /\ EmptyDb

----------------------------------------------------------------------------
(* Outcomes shared by the handlers *)

\* {"success": True}
Success == [success |-> TRUE]

Detail(code) ==
    CASE code = 401 -> "Invalid authentication"
      [] code = 403 -> "Admin access required"
      [] OTHER -> "Internal Server Error"

\* the request ends with an error and has written nothing
Fails(op, cu, arg, code, detail) ==
    /\ resp' = Response(op, cu, arg, code, detail, 0)
    /\ UNCHANGED <<users, ad_requests, payments, subscriptions, files,
                   admin_settings, tokens, now, inflight>>

\* the dependency raised: 401 or 403
Rejected(op, cu, arg) == Fails(op, cu, arg, cu.code, Detail(cu.code))

----------------------------------------------------------------------------
(* Auth routes *)

\* the user as returned: the document without its password
User(d) == [id |-> d.id, email |-> d.email, role |-> d.role]

\* register, up to its second await: the find_one by email
register_find(email, password) ==
    LET existing == FindOne(users, [email |-> email])
    IN  IF existing # 0
        THEN Fails("register", NoAuth, email, 400, "Email already registered")
        ELSE /\ CanSuspend
             /\ Len(users) + PendingInserts({"register"}) < MaxUsers
             /\ Cardinality(tokens) + PendingInserts({"register"}) < MaxTokens
             /\ inflight' = Suspend([op |-> "register", email |-> email,
                                     password |-> password])
             /\ resp' = NoResponse
             /\ UNCHANGED <<users, ad_requests, payments, subscriptions,
                            files, admin_settings, tokens, now>>

\* the insert_one, the token and the return
register_insert(s) ==
    LET r == inflight[s]
        user_dict == [id |-> Len(users) + 1, email |-> r.email,
                      password |-> hash_password(r.password),
                      role |-> "client"]
        token == create_token(user_dict.id, user_dict.email, user_dict.role)
    IN  /\ r.op = "register"
        /\ Cardinality(tokens \cup {token}) <= MaxTokens
        /\ users' = InsertOne(users, user_dict)
        /\ tokens' = tokens \cup {token}
        /\ inflight' = Done(s)
        /\ resp' = Response("register", NoAuth, r.email, 200,
                            [token |-> token, user |-> User(user_dict)], 1)
        /\ UNCHANGED <<ad_requests, payments, subscriptions, files,
                       admin_settings, now>>

login(email, password) ==
    LET user == FindOne(users, [email |-> email])
        token == create_token(users[user].id, users[user].email,
                              users[user].role)
    IN  IF user = 0 \/ ~verify_password(password, users[user].password)
        THEN Fails("login", NoAuth, email, 401, "Invalid credentials")
        ELSE /\ Cardinality(tokens \cup {token}) <= MaxTokens
             /\ tokens' = tokens \cup {token}
             /\ resp' = Response("login", NoAuth, email, 200,
                                 [token |-> token, user |-> User(users[user])],
                                 0)
             /\ UNCHANGED <<users, ad_requests, payments, subscriptions,
                            files, admin_settings, now, inflight>>

get_me(token) ==
    LET current_user == get_current_user(token)
        user == FindOne(users, [id |-> current_user.user.user_id])
    IN  IF current_user.code # 200 THEN Rejected("get_me", current_user, 0)
        ELSE IF user = 0
        THEN Fails("get_me", current_user, 0, 404, "User not found")
        ELSE /\ resp' = Response("get_me", current_user, 0, 200,
                                 User(users[user]), 0)
             /\ UNCHANGED <<users, ad_requests, payments, subscriptions,
                            files, admin_settings, tokens, now, inflight>>

\* time passes
Tick ==
    /\ now + ClockStep <= MaxTime
    /\ now' = now + ClockStep
    /\ resp' = NoResponse
    /\ UNCHANGED <<users, ad_requests, payments, subscriptions, files,
                   admin_settings, tokens, inflight>>

----------------------------------------------------------------------------
(* File upload *)

\* upload_file, up to its await: the token check; the body is being read
upload_file_read(token) ==
    LET current_user == get_current_user(token)
    IN  IF current_user.code # 200
        THEN Rejected("upload_file", current_user, 0)
        ELSE /\ CanSuspend
             /\ DocCount < MaxDocs
             /\ inflight' = Suspend([op |-> "upload_file",
                                     cu |-> current_user])
             /\ resp' = NoResponse
             /\ UNCHANGED <<users, ad_requests, payments, subscriptions,
                            files, admin_settings, tokens, now>>

\* the body was read: the insert_one and the return
upload_file_insert(s) ==
    LET r == inflight[s]
        file_id == Len(files) + 1
    IN  /\ r.op = "upload_file"
        /\ files' = InsertOne(files, [id |-> file_id,
                                      uploaded_by |-> r.cu.user.user_id])
        /\ inflight' = Done(s)
        /\ resp' = Response("upload_file", r.cu, 0, 200,
                            [file_id |-> file_id, url |-> FileUrl(file_id)], 1)
        /\ UNCHANGED <<users, ad_requests, payments, subscriptions,
                       admin_settings, tokens, now>>

----------------------------------------------------------------------------
(* Ad requests *)

\* AdRequest(**d) validates: other_info is declared str, so a document
\* that holds None there raises a ValidationError, which ends the request
\* with a 500
AdRequestValid(d) == d.other_info # Unset

\* create_ad_request, up to its second await: the find_one of the user and
\* the ad_dict, created_at included
create_ad_request_find(token, other_info) ==
    LET current_user == get_current_user(token)
        user == FindOne(users, [id |-> current_user.user.user_id])
        ad_dict == [client_id |-> current_user.user.user_id,
                    client_email |-> users[user].email,
                    other_info |-> other_info, photos |-> <<>>,
                    status |-> "pending", created_at |-> now]
    IN  IF current_user.code # 200
        THEN Rejected("create_ad_request", current_user, 0)
        ELSE IF user = 0
        THEN Fails("create_ad_request", current_user, 0, 500, Detail(500))
        ELSE /\ CanSuspend
             /\ DocCount < MaxDocs
             /\ inflight' = Suspend([op |-> "create_ad_request",
                                     cu |-> current_user,
                                     ad_dict |-> ad_dict])
             /\ resp' = NoResponse
             /\ UNCHANGED <<users, ad_requests, payments, subscriptions,
                            files, admin_settings, tokens, now>>

\* the insert_one and the return: AdRequest(**ad_dict) is built after the
\* document is stored
create_ad_request_insert(s) ==
    LET r == inflight[s]
        ad_dict == SetFields(r.ad_dict, [id |-> Len(ad_requests) + 1])
    IN  /\ r.op = "create_ad_request"
        /\ ad_requests' = InsertOne(ad_requests, ad_dict)
        /\ inflight' = Done(s)
        /\ resp' = IF AdRequestValid(ad_dict)
                   THEN Response("create_ad_request", r.cu, 0, 200, ad_dict, 1)
                   ELSE Response("create_ad_request", r.cu, 0, 500,
                                 Detail(500), 1)
        /\ UNCHANGED <<users, payments, subscriptions, files,
                       admin_settings, tokens, now>>

\* add_photos, up to its second await: the find_one of the caller's ad
add_photos_find(token, ad_id, file_ids) ==
    LET current_user == get_current_user(token)
        ad == FindOne(ad_requests,
                      [id |-> ad_id,
                       client_id |-> current_user.user.user_id])
        photo_urls == [i \in DOMAIN file_ids |-> FileUrl(file_ids[i])]
    IN  IF current_user.code # 200
        THEN Rejected("add_photos", current_user, ad_id)
        ELSE IF ad = 0
        THEN Fails("add_photos", current_user, ad_id, 404,
                   "Ad request not found")
        ELSE /\ CanSuspend
             /\ inflight' = Suspend([op |-> "add_photos",
                                     cu |-> current_user, ad_id |-> ad_id,
                                     photo_urls |-> photo_urls])
             /\ resp' = NoResponse
             /\ UNCHANGED <<users, ad_requests, payments, subscriptions,
                            files, admin_settings, tokens, now>>

\* the update_one and the return
add_photos_update(s) ==
    LET r == inflight[s]
    IN  /\ r.op = "add_photos"
        /\ ad_requests' = UpdateOne(ad_requests, [id |-> r.ad_id],
                                    [photos |-> r.photo_urls])
        /\ inflight' = Done(s)
        /\ resp' = Response("add_photos", r.cu, r.ad_id, 200,
                            [success |-> TRUE, photos |-> r.photo_urls], 1)
        /\ UNCHANGED <<users, payments, subscriptions, files,
                       admin_settings, tokens, now>>

\* the query of get_ad_requests' find
get_ad_requests_query(user) ==
    IF user.role = "admin" THEN AllDocs ELSE [client_id |-> user.user_id]

get_ad_requests(token) ==
    LET current_user == get_current_user(token)
        found == Find(ad_requests, get_ad_requests_query(current_user.user))
    IN  IF current_user.code # 200
        THEN Rejected("get_ad_requests", current_user, 0)
        ELSE /\ \E sorted \in SortNewestFirst(found) :
                    LET ads == ToList(sorted, ListLimit)
                    IN  resp' =
                            IF \A i \in DOMAIN ads : AdRequestValid(ads[i])
                            THEN Response("get_ad_requests", current_user, 0,
                                          200, ads, 0)
                            ELSE Response("get_ad_requests", current_user, 0,
                                          500, Detail(500), 0)
             /\ UNCHANGED <<users, ad_requests, payments, subscriptions,
                            files, admin_settings, tokens, now, inflight>>

\* the query of get_ad_request's find_one
get_ad_request_query(ad_id, user) ==
    IF user.role # "admin"
    THEN [id |-> ad_id, client_id |-> user.user_id]
    ELSE [id |-> ad_id]

get_ad_request(token, ad_id) ==
    LET current_user == get_current_user(token)
        ad == FindOne(ad_requests,
                      get_ad_request_query(ad_id, current_user.user))
    IN  IF current_user.code # 200
        THEN Rejected("get_ad_request", current_user, ad_id)
        ELSE IF ad = 0
        THEN Fails("get_ad_request", current_user, ad_id, 404,
                   "Ad request not found")
        ELSE IF ~AdRequestValid(ad_requests[ad])
        THEN Fails("get_ad_request", current_user, ad_id, 500, Detail(500))
        ELSE /\ resp' = Response("get_ad_request", current_user, ad_id, 200,
                                 ad_requests[ad], 0)
             /\ UNCHANGED <<users, ad_requests, payments, subscriptions,
                            files, admin_settings, tokens, now, inflight>>

update_ad_status(token, ad_id, status) ==
    LET current_user == get_admin_user(token)
    IN  IF current_user.code # 200
        THEN Rejected("update_ad_status", current_user, ad_id)
        ELSE IF MatchedCount(ad_requests, [id |-> ad_id]) = 0
        THEN Fails("update_ad_status", current_user, ad_id, 404,
                   "Ad request not found")
        ELSE /\ ad_requests' =
                    UpdateOne(ad_requests, [id |-> ad_id],
                              [status |-> status])
             /\ resp' = Response("update_ad_status", current_user, ad_id, 200,
                                 Success, 1)
             /\ UNCHANGED <<users, payments, subscriptions, files,
                            admin_settings, tokens, now, inflight>>

----------------------------------------------------------------------------
(* Payments *)

\* mutant: the query lacks the client_id
create_payment_query_any_owner(ad_request_id, user) == [id |-> ad_request_id]

\* the query of create_payment's find_one on ad_requests
create_payment_query(ad_request_id, user) ==
    [id |-> ad_request_id, client_id |-> user.user_id]

\* create_payment, up to its second await: the find_one of the caller's ad
\* and the payment_dict, created_at included
create_payment_find(token, ad_request_id) ==
    LET current_user == get_current_user(token)
        ad == FindOne(ad_requests,
                      create_payment_query(ad_request_id, current_user.user))
        payment_dict == [ad_request_id |-> ad_request_id,
                         screenshot_url |-> NoUrl, status |-> "pending",
                         created_at |-> now, verified_at |-> None]
    IN  IF current_user.code # 200
        THEN Rejected("create_payment", current_user, ad_request_id)
        ELSE IF ad = 0
        THEN Fails("create_payment", current_user, ad_request_id, 404,
                   "Ad request not found")
        ELSE /\ CanSuspend
             /\ DocCount < MaxDocs
             /\ inflight' = Suspend([op |-> "create_payment",
                                     cu |-> current_user,
                                     payment_dict |-> payment_dict])
             /\ resp' = NoResponse
             /\ UNCHANGED <<users, ad_requests, payments, subscriptions,
                            files, admin_settings, tokens, now>>

\* the insert_one and the return
create_payment_insert(s) ==
    LET r == inflight[s]
        payment_dict == SetFields(r.payment_dict, [id |-> Len(payments) + 1])
    IN  /\ r.op = "create_payment"
        /\ payments' = InsertOne(payments, payment_dict)
        /\ inflight' = Done(s)
        /\ resp' = Response("create_payment", r.cu,
                            payment_dict.ad_request_id, 200, payment_dict, 1)
        /\ UNCHANGED <<users, ad_requests, subscriptions, files,
                       admin_settings, tokens, now>>

\* the $set of upload_payment_screenshot
screenshot_set(file_id) == [screenshot_url |-> FileUrl(file_id)]

upload_payment_screenshot(token, payment_id, file_id) ==
    LET current_user == get_current_user(token)
    IN  IF current_user.code # 200
        THEN Rejected("upload_payment_screenshot", current_user, payment_id)
        ELSE IF MatchedCount(payments, [id |-> payment_id]) = 0
        THEN Fails("upload_payment_screenshot", current_user, payment_id, 404,
                   "Payment not found")
        ELSE /\ payments' =
                    UpdateOne(payments, [id |-> payment_id],
                              screenshot_set(file_id))
             /\ resp' = Response("upload_payment_screenshot", current_user,
                                 payment_id, 200,
                                 [success |-> TRUE,
                                  screenshot_url |-> FileUrl(file_id)], 1)
             /\ UNCHANGED <<users, ad_requests, subscriptions, files,
                            admin_settings, tokens, now, inflight>>

\* get_payments, up to its second await.  The administrator's request is
\* one find on payments; a client's is first a find on ad_requests, for
\* the ids of its own
get_payments(token) ==
    LET current_user == get_current_user(token)
        mine == ToList(Find(ad_requests,
                            [client_id |-> current_user.user.user_id]),
                       ListLimit)
        ad_ids == {mine[i].id : i \in DOMAIN mine}
    IN  IF current_user.code # 200
        THEN Rejected("get_payments", current_user, 0)
        ELSE IF current_user.user.role = "admin"
        THEN /\ \E found \in SortNewestFirst(Find(payments, AllDocs)) :
                    resp' = Response("get_payments", current_user, 0, 200,
                                     ToList(found, ListLimit), 0)
             /\ UNCHANGED <<users, ad_requests, payments, subscriptions,
                            files, admin_settings, tokens, now, inflight>>
        ELSE /\ CanSuspend
             /\ inflight' = Suspend([op |-> "get_payments",
                                     cu |-> current_user,
                                     ad_ids |-> ad_ids])
             /\ resp' = NoResponse
             /\ UNCHANGED <<users, ad_requests, payments, subscriptions,
                            files, admin_settings, tokens, now>>

\* a client's find on payments, by the ids read before, and the return
get_payments_find(s) ==
    LET r == inflight[s]
    IN  /\ r.op = "get_payments"
        /\ \E found \in SortNewestFirst(FindIn(payments, "ad_request_id",
                                               r.ad_ids)) :
               resp' = Response("get_payments", r.cu, 0, 200,
                                ToList(found, ListLimit), 0)
        /\ inflight' = Done(s)
        /\ UNCHANGED <<users, ad_requests, payments, subscriptions, files,
                       admin_settings, tokens, now>>

\* mutant: the $set lacks verified_at
verify_payment_set_status_only(verified_at) == [status |-> "verified"]

\* the $set of verify_payment's update of the payment
verify_payment_set(verified_at) ==
    [status |-> "verified", verified_at |-> verified_at]

\* verify_payment, up to its second await: the admin check, the find_one
\* and the arguments of the first update_one, the time included
verify_payment_find(token, payment_id) ==
    LET current_user == get_admin_user(token)
        payment == FindOne(payments, [id |-> payment_id])
    IN  IF current_user.code # 200
        THEN Rejected("verify_payment", current_user, payment_id)
        ELSE IF payment = 0
        THEN Fails("verify_payment", current_user, payment_id, 404,
                   "Payment not found")
        ELSE /\ CanSuspend
             /\ inflight' = Suspend(
                    [op |-> "verify_payment", cu |-> current_user,
                     payment_id |-> payment_id,
                     ad_request_id |-> payments[payment].ad_request_id,
                     set |-> verify_payment_set(now),
                     pc |-> "update_payment"])
             /\ resp' = NoResponse
             /\ UNCHANGED <<users, ad_requests, payments, subscriptions,
                            files, admin_settings, tokens, now>>

\* the first write: db.payments.update_one
verify_payment_update_payment(s) ==
    LET r == inflight[s]
    IN  /\ r.op = "verify_payment"
        /\ r.pc = "update_payment"
        /\ payments' = UpdateOne(payments, [id |-> r.payment_id], r.set)
        /\ inflight' = Resume(s, [r EXCEPT !.pc = "update_ad"])
        /\ resp' = NoResponse
        /\ UNCHANGED <<users, ad_requests, subscriptions, files,
                       admin_settings, tokens, now>>

\* mutant: the ad request is set to the payment's status
verify_payment_cascade_wrong_status(ads, ad_request_id) ==
    UpdateOne(ads, [id |-> ad_request_id], [status |-> "verified"])

\* mutant: delete_one in the place of update_one
verify_payment_cascade_deleting(ads, ad_request_id) ==
    SelectSeq(ads, LAMBDA d : d.id # ad_request_id)

\* the update of the linked ad request
verify_payment_cascade(ads, ad_request_id) ==
    UpdateOne(ads, [id |-> ad_request_id], [status |-> "paid"])

\* the second write, db.ad_requests.update_one, and the return
verify_payment_update_ad(s) ==
    LET r == inflight[s]
    IN  /\ r.op = "verify_payment"
        /\ r.pc = "update_ad"
        /\ ad_requests' = verify_payment_cascade(ad_requests, r.ad_request_id)
        /\ inflight' = Done(s)
        /\ resp' = Response("verify_payment", r.cu, r.payment_id, 200,
                            Success, 2)
        /\ UNCHANGED <<users, payments, subscriptions, files,
                       admin_settings, tokens, now>>

\* a write of verify_payment raises (the database cannot be reached): the
\* exception ends the request with a 500; what was written stays written
verify_payment_write_fails(s) ==
    LET r == inflight[s]
    IN  /\ r.op = "verify_payment"
        /\ inflight' = Done(s)
        /\ resp' = Response("verify_payment", r.cu, r.payment_id, 500,
                            Detail(500),
                            IF r.pc = "update_payment" THEN 0 ELSE 1)
        /\ UNCHANGED <<users, ad_requests, payments, subscriptions, files,
                       admin_settings, tokens, now>>

----------------------------------------------------------------------------
(* Subscriptions *)

\* create_subscription, up to its second await: the find_one of the user
\* and the sub_dict, its dates included
create_subscription_find(token) ==
    LET current_user == get_current_user(token)
        user == FindOne(users, [id |-> current_user.user.user_id])
        sub_dict == [client_id |-> current_user.user.user_id,
                     client_email |-> users[user].email, start_date |-> now,
                     end_date |-> now + SubscriptionDays,
                     status |-> "pending", payment_screenshot |-> NoUrl,
                     created_at |-> now]
    IN  IF current_user.code # 200
        THEN Rejected("create_subscription", current_user, 0)
        ELSE IF user = 0
        THEN Fails("create_subscription", current_user, 0, 500, Detail(500))
        ELSE /\ CanSuspend
             /\ DocCount < MaxDocs
             /\ inflight' = Suspend([op |-> "create_subscription",
                                     cu |-> current_user,
                                     sub_dict |-> sub_dict])
             /\ resp' = NoResponse
             /\ UNCHANGED <<users, ad_requests, payments, subscriptions,
                            files, admin_settings, tokens, now>>

\* the insert_one and the return
create_subscription_insert(s) ==
    LET r == inflight[s]
        sub_dict == SetFields(r.sub_dict, [id |-> Len(subscriptions) + 1])
    IN  /\ r.op = "create_subscription"
        /\ subscriptions' = InsertOne(subscriptions, sub_dict)
        /\ inflight' = Done(s)
        /\ resp' = Response("create_subscription", r.cu, 0, 200, sub_dict, 1)
        /\ UNCHANGED <<users, ad_requests, payments, files,
                       admin_settings, tokens, now>>

upload_subscription_screenshot(token, sub_id, file_id) ==
    LET current_user == get_current_user(token)
        mine == [id |-> sub_id, client_id |-> current_user.user.user_id]
    IN  IF current_user.code # 200
        THEN Rejected("upload_subscription_screenshot", current_user, sub_id)
        ELSE IF MatchedCount(subscriptions, mine) = 0
        THEN Fails("upload_subscription_screenshot", current_user, sub_id,
                   404, "Subscription not found")
        ELSE /\ subscriptions' =
                    UpdateOne(subscriptions, mine,
                              [payment_screenshot |-> FileUrl(file_id)])
             /\ resp' = Response("upload_subscription_screenshot",
                                 current_user, sub_id, 200,
                                 [success |-> TRUE,
                                  screenshot_url |-> FileUrl(file_id)], 1)
             /\ UNCHANGED <<users, ad_requests, payments, files,
                            admin_settings, tokens, now, inflight>>

get_all_subscriptions(token) ==
    LET current_user == get_admin_user(token)
    IN  IF current_user.code # 200
        THEN Rejected("get_all_subscriptions", current_user, 0)
        ELSE /\ \E subs \in SortNewestFirst(Find(subscriptions, AllDocs)) :
                    resp' = Response("get_all_subscriptions", current_user, 0,
                                     200, ToList(subs, ListLimit), 0)
             /\ UNCHANGED <<users, ad_requests, payments, subscriptions,
                            files, admin_settings, tokens, now, inflight>>

verify_subscription(token, sub_id) ==
    LET current_user == get_admin_user(token)
    IN  IF current_user.code # 200
        THEN Rejected("verify_subscription", current_user, sub_id)
        ELSE IF MatchedCount(subscriptions, [id |-> sub_id]) = 0
        THEN Fails("verify_subscription", current_user, sub_id, 404,
                   "Subscription not found")
        ELSE /\ subscriptions' =
                    UpdateOne(subscriptions, [id |-> sub_id],
                              [status |-> "active"])
             /\ resp' = Response("verify_subscription", current_user, sub_id,
                                 200, Success, 1)
             /\ UNCHANGED <<users, ad_requests, payments, files,
                            admin_settings, tokens, now, inflight>>

----------------------------------------------------------------------------
(* Admin settings.  A settings document holds the fields that were written *)
(* to it; a field it lacks reads Missing.                                  *)

Missing == "<missing>"

\* AdminSettings(**settings): a missing field takes the model's default ""
AdminSettings(d) ==
    [sham_cash_qr |-> IF d.sham_cash_qr = Missing THEN "" ELSE d.sham_cash_qr,
     syriatel_qr |-> IF d.syriatel_qr = Missing THEN "" ELSE d.syriatel_qr]

default_settings == [sham_cash_qr |-> "", syriatel_qr |-> ""]

\* get_admin_settings, up to its second await: the find_one
get_admin_settings_find ==
    IF admin_settings # <<>>
    THEN /\ resp' = Response("get_admin_settings", NoAuth, 0, 200,
                             AdminSettings(admin_settings[1]), 0)
         /\ UNCHANGED <<users, ad_requests, payments, subscriptions, files,
                        admin_settings, tokens, now, inflight>>
    ELSE /\ CanSuspend
         /\ DocCount < MaxDocs
         /\ inflight' = Suspend([op |-> "get_admin_settings"])
         /\ resp' = NoResponse
         /\ UNCHANGED <<users, ad_requests, payments, subscriptions, files,
                        admin_settings, tokens, now>>

\* the insert_one of the defaults, and the return
get_admin_settings_insert(s) ==
    /\ inflight[s].op = "get_admin_settings"
    /\ admin_settings' = InsertOne(admin_settings, default_settings)
    /\ inflight' = Done(s)
    /\ resp' = Response("get_admin_settings", NoAuth, 0, 200,
                        AdminSettings(default_settings), 1)
    /\ UNCHANGED <<users, ad_requests, payments, subscriptions, files,
                   tokens, now>>

\* update_one({}, {"$set": update_data}, upsert=True): the first document
\* takes the fields given; when there is none, one is inserted with them
Upsert(coll, settings) ==
    LET Set(d) == [f \in DOMAIN d |->
                      IF settings[f] = Unset THEN d[f] ELSE settings[f]]
    IN  IF coll = <<>>
        THEN <<Set([sham_cash_qr |-> Missing, syriatel_qr |-> Missing])>>
        ELSE [coll EXCEPT ![1] = Set(coll[1])]

update_admin_settings(token, settings) ==
    LET current_user == get_admin_user(token)
        update_data == {f \in DOMAIN settings : settings[f] # Unset}
    IN  IF current_user.code # 200
        THEN Rejected("update_admin_settings", current_user, 0)
        ELSE /\ admin_settings # <<>> \/ update_data = {} \/ DocCount < MaxDocs
             /\ admin_settings' = IF update_data = {} THEN admin_settings
                                  ELSE Upsert(admin_settings, settings)
             /\ resp' = Response("update_admin_settings", current_user, 0,
                                 200, Success,
                                 IF update_data = {} THEN 0 ELSE 1)
             /\ UNCHANGED <<users, ad_requests, payments, subscriptions,
                            files, tokens, now, inflight>>

----------------------------------------------------------------------------
(* The service.  Any client sends any request with a token it was handed;  *)
(* a suspended request resumes at any time.  Each specification below runs *)
(* the handlers of one part of the service.                                *)

\* the payment life cycle: ad requests, payments and their verification
Next ==
    \/ \E t \in tokens, o \in OtherInfoDefault : create_ad_request_find(t, o)
    \/ \E s \in Slots : create_ad_request_insert(s)
    \/ \E t \in tokens, a \in Ids(ad_requests), st \in AdStatusInputs :
          update_ad_status(t, a, st)
    \/ \E t \in tokens, a \in Ids(ad_requests) : create_payment_find(t, a)
    \/ \E t \in tokens, p \in Ids(payments), f \in FileIdInputs :
          upload_payment_screenshot(t, p, f)
    \/ \E t \in tokens : get_payments(t)
    \/ \E s \in Slots : get_payments_find(s)
    \/ \E t \in tokens, p \in Ids(payments) : verify_payment_find(t, p)
    \/ \E s \in Slots : create_payment_insert(s)
    \/ \E s \in Slots : verify_payment_update_payment(s)
    \/ \E s \in Slots : verify_payment_update_ad(s)
    \/ \E s \in Slots : verify_payment_write_fails(s)
    \/ Tick

Spec == Init /\ [][Next]_vars

\* the ad requests: creation, photos, listing, fetching
NextAds ==
    \/ \E t \in tokens, o \in OtherInfoInputs : create_ad_request_find(t, o)
    \/ \E t \in tokens, a \in Ids(ad_requests), f \in PhotoInputs :
          add_photos_find(t, a, f)
    \/ \E s \in Slots : create_ad_request_insert(s)
    \/ \E s \in Slots : add_photos_update(s)
    \/ \E t \in tokens : get_ad_requests(t)
    \/ \E t \in tokens, a \in Ids(ad_requests) : get_ad_request(t, a)
    \/ Tick

SpecAds == InitAds /\ [][NextAds]_vars

\* the administrator's operations, and the creations they act on
NextAdmin ==
    \/ \E t \in tokens, o \in OtherInfoDefault : create_ad_request_find(t, o)
    \/ \E s \in Slots : create_ad_request_insert(s)
    \/ \E t \in tokens, a \in Ids(ad_requests), st \in AdStatusInputs :
          update_ad_status(t, a, st)
    \/ \E t \in tokens, a \in Ids(ad_requests) : create_payment_find(t, a)
    \/ \E t \in tokens, p \in Ids(payments) : verify_payment_find(t, p)
    \/ \E s \in Slots : create_payment_insert(s)
    \/ \E s \in Slots : verify_payment_update_payment(s)
    \/ \E s \in Slots : verify_payment_update_ad(s)
    \/ \E s \in Slots : verify_payment_write_fails(s)
    \/ \E t \in tokens : create_subscription_find(t)
    \/ \E s \in Slots : create_subscription_insert(s)
    \/ \E t \in tokens : get_all_subscriptions(t)
    \/ \E t \in tokens, u \in Ids(subscriptions) : verify_subscription(t, u)
    \/ get_admin_settings_find
    \/ \E s \in Slots : get_admin_settings_insert(s)
    \/ \E t \in tokens, a \in QrInputs, b \in QrInputs :
          update_admin_settings(t, [sham_cash_qr |-> a, syriatel_qr |-> b])
    \/ Tick

SpecAdmin == Init /\ [][NextAdmin]_vars

\* every handler that writes to users, ad_requests, payments, subscriptions
\* or files
NextStore ==
    \/ \E e \in StoreEmails, p \in Passwords : register_find(e, p)
    \/ \E s \in Slots : register_insert(s)
    \/ \E t \in tokens : upload_file_read(t)
    \/ \E s \in Slots : upload_file_insert(s)
    \/ \E t \in tokens, o \in OtherInfoDefault : create_ad_request_find(t, o)
    \/ \E t \in tokens, a \in Ids(ad_requests), f \in PhotoInputs :
          add_photos_find(t, a, f)
    \/ \E s \in Slots : create_ad_request_insert(s)
    \/ \E s \in Slots : add_photos_update(s)
    \/ \E t \in tokens, a \in Ids(ad_requests), st \in AdStatusInputs :
          update_ad_status(t, a, st)
    \/ \E t \in tokens, a \in Ids(ad_requests) : create_payment_find(t, a)
    \/ \E t \in tokens, p \in Ids(payments), f \in FileIdInputs :
          upload_payment_screenshot(t, p, f)
    \/ \E t \in tokens, p \in Ids(payments) : verify_payment_find(t, p)
    \/ \E s \in Slots : create_payment_insert(s)
    \/ \E s \in Slots : verify_payment_update_payment(s)
    \/ \E s \in Slots : verify_payment_update_ad(s)
    \/ \E s \in Slots : verify_payment_write_fails(s)
    \/ \E t \in tokens : create_subscription_find(t)
    \/ \E s \in Slots : create_subscription_insert(s)
    \/ \E t \in tokens, u \in Ids(subscriptions), f \in FileIdInputs :
          upload_subscription_screenshot(t, u, f)
    \/ \E t \in tokens, u \in Ids(subscriptions) : verify_subscription(t, u)
    \/ Tick

SpecStore == InitStore /\ [][NextStore]_vars

\* registration, login and the use of tokens as time passes
NextAuth ==
    \/ \E e \in Emails, p \in Passwords : register_find(e, p)
    \/ \E s \in Slots : register_insert(s)
    \/ \E e \in Emails \cup {"admin@x.com"}, p \in Passwords \cup WrongPasswords :
          login(e, p)
    \/ \E t \in tokens \cup ForgedTokens : get_me(t)
    \/ \E t \in tokens \cup ForgedTokens : upload_file_read(t)
    \/ \E s \in Slots : upload_file_insert(s)
    \/ Tick

SpecAuth == InitAuth /\ [][NextAuth]_vars

----------------------------------------------------------------------------
(* Properties *)

StoredAd(id) == \E j \in DOMAIN ad_requests : ad_requests[j].id = id

OwnedBy(id, user) ==
    \E j \in DOMAIN ad_requests :
        ad_requests[j].id = id /\ ad_requests[j].client_id = user.user_id

Authenticated == resp.code # 401

\* the step suspends a request of the handler named: its dependency and
\* its first awaited operation let it through
Accepts(op) ==
    /\ Len(inflight') = Len(inflight) + 1
    /\ inflight'[Len(inflight')].op = op

Accepted == inflight'[Len(inflight')]

\* C1: when verify_payment returns success, the payment it names is
\* "verified" with a verification time and the ad request that payment
\* refers to is "paid", in the state the call returns in.
C1_VerifyCascades ==
    (resp.op = "verify_payment" /\ resp.code = 200) =>
        \E i \in DOMAIN payments :
            /\ payments[i].id = resp.arg
            /\ payments[i].status = "verified"
            /\ payments[i].verified_at # None
            /\ \E j \in DOMAIN ad_requests :
                   /\ ad_requests[j].id = payments[i].ad_request_id
                   /\ ad_requests[j].status = "paid"

\* a verify_payment by the administrator returned success for a stored payment
C1_Witness ==
    /\ resp.op = "verify_payment"
    /\ resp.code = 200
    /\ resp.user.role = "admin"
    /\ \E i \in DOMAIN payments : payments[i].id = resp.arg

\* C2: the cascade of verify_payment is atomic: no state holds a call that
\* has written the payment and not yet the ad request, and a call that
\* reports a failure has applied neither write.
C2_CascadeAtomic ==
    /\ \A s \in Slots :
           inflight[s].op = "verify_payment" => inflight[s].pc # "update_ad"
    /\ (resp.op = "verify_payment" /\ resp.code = 500) => resp.writes = 0

\* C3: no two user documents have the same email.
C3_EmailUnique ==
    \A i, j \in DOMAIN users : users[i].email = users[j].email => i = j

\* C4: for a caller who is not an administrator, get_ad_requests returns
\* exactly the ad requests whose client_id is the caller's user_id, and
\* get_ad_request returns the ad request named when the caller owns it and
\* otherwise fails with the one 404, whether or not the id is stored.
C4_ClientIsolation ==
    /\ (resp.op = "get_ad_requests" /\ Authenticated
            /\ resp.user.role # "admin") =>
           /\ resp.code = 200
           /\ {resp.body[i] : i \in DOMAIN resp.body} =
                  {ad_requests[j] : j \in
                      {k \in DOMAIN ad_requests :
                          ad_requests[k].client_id = resp.user.user_id}}
           /\ \A i, k \in DOMAIN resp.body :
                  resp.body[i].id = resp.body[k].id => i = k
    /\ (resp.op = "get_ad_request" /\ Authenticated
            /\ resp.user.role # "admin") =>
           IF OwnedBy(resp.arg, resp.user)
           THEN /\ resp.code = 200
                /\ resp.body.id = resp.arg
                /\ resp.body.client_id = resp.user.user_id
                /\ \E j \in DOMAIN ad_requests : ad_requests[j] = resp.body
           ELSE /\ resp.code = 404
                /\ resp.body = "Ad request not found"

\* C5: the admin_settings collection holds at most one document.
C5_Singleton == Len(admin_settings) <= 1

AdminOps ==
    {"update_ad_status", "verify_payment", "verify_subscription",
     "get_all_subscriptions", "update_admin_settings"}

\* the step was taken by a request whose decoded token has the admin role
ByAdmin ==
    \/ resp'.user.role = "admin"
    \/ \E s \in Slots :
           /\ inflight[s].op = "verify_payment"
           /\ inflight[s].cu.user.role = "admin"
           /\ inflight[s].pc = "update_payment"
           /\ inflight' = Resume(s, [inflight[s] EXCEPT !.pc = "update_ad"])

SettingsFieldUpdated ==
    \/ /\ admin_settings # <<>>
       /\ admin_settings'[1] # admin_settings[1]
    \/ /\ admin_settings = <<>>
       /\ admin_settings' # <<>>
       /\ admin_settings'[1] # default_settings

\* C6: an admin-only operation called with a valid token whose role is not
\* "admin" fails with 403 and changes no collection; an ad request's status,
\* a payment becoming "verified", a subscription becoming "active" and a
\* settings field only change in a step taken by an administrator.
C6_AdminOnly ==
    [][/\ (resp'.op \in AdminOps /\ resp'.code # 401
               /\ resp'.user.role # "admin") =>
              (resp'.code = 403 /\ UNCHANGED db)
       /\ (\E i \in DOMAIN ad_requests :
               ad_requests'[i].status # ad_requests[i].status) => ByAdmin
       /\ (\E i \in DOMAIN payments :
               /\ payments[i].status # "verified"
               /\ payments'[i].status = "verified") => ByAdmin
       /\ (\E i \in DOMAIN subscriptions :
               /\ subscriptions[i].status # "active"
               /\ subscriptions'[i].status = "active") => ByAdmin
       /\ SettingsFieldUpdated => ByAdmin]_vars

\* a client tried to verify a stored payment and got the 403
C6_Witness ==
    /\ resp.op = "verify_payment"
    /\ resp.user.role = "client"
    /\ resp.code = 403
    /\ \E i \in DOMAIN payments :
           payments[i].id = resp.arg /\ payments[i].status = "pending"

\* C7: create_payment succeeds only for the owner of the ad request named,
\* and then inserts one payment, "pending", with no screenshot and no
\* verification time; for any other caller, the administrator included, or
\* an id that is not stored, it fails with 404 and inserts nothing.
C7_CreatePaymentOwnerOnly ==
    [][/\ (resp'.op = "create_payment" /\ resp'.code # 401) =>
              IF OwnedBy(resp'.arg, resp'.user)
              THEN /\ resp'.code = 200
                   /\ Len(payments') = Len(payments) + 1
                   /\ SubSeq(payments', 1, Len(payments)) = payments
                   /\ payments'[Len(payments')] = resp'.body
                   /\ resp'.body.ad_request_id = resp'.arg
                   /\ resp'.body.status = "pending"
                   /\ resp'.body.screenshot_url = NoUrl
                   /\ resp'.body.verified_at = None
              ELSE /\ resp'.code = 404
                   /\ payments' = payments
       /\ Accepts("create_payment") =>
              /\ OwnedBy(Accepted.payment_dict.ad_request_id,
                         Accepted.cu.user)
              /\ payments' = payments
       /\ Len(payments') > Len(payments) =>
              (resp'.op = "create_payment" /\ resp'.code = 200)]_vars

\* the administrator asked for a payment on a client's ad request: 404
C7_Witness ==
    /\ resp.op = "create_payment"
    /\ resp.user.role = "admin"
    /\ resp.code = 404
    /\ StoredAd(resp.arg)

\* the token is one register or login handed out, and the step's outcome
\* carries the identity the token was made with
Decoded(token, user) ==
    /\ token \in tokens
    /\ user = token.payload
    /\ \E i \in DOMAIN users :
           /\ users[i].id = user.user_id
           /\ users[i].email = user.email
           /\ users[i].role = user.role

\* C8: register and login hand out a token that carries the user's id,
\* email and role and expires TokenDays later; presented before its expiry
\* it is accepted and decodes to that user, presented after its expiry it
\* is rejected with 401 and the request changes nothing.  A token is
\* presented in the step that runs the dependency: the whole of get_me, and
\* the first step of upload_file, which either rejects or suspends.
C8_TokenRoundTrip ==
    [][/\ (resp'.op \in {"register", "login"} /\ resp'.code = 200) =>
              /\ resp'.body.token \in tokens'
              /\ resp'.body.token.payload =
                     [user_id |-> resp'.body.user.id,
                      email |-> resp'.body.user.email,
                      role |-> resp'.body.user.role,
                      exp |-> now + TokenDays]
              /\ \E i \in DOMAIN users' : User(users'[i]) = resp'.body.user
       /\ (resp'.op = "get_me" /\ resp'.token \in tokens) =>
              /\ now < resp'.token.payload.exp =>
                     /\ resp'.code = 200
                     /\ Decoded(resp'.token, resp'.user)
                     /\ resp'.body = [id |-> resp'.user.user_id,
                                      email |-> resp'.user.email,
                                      role |-> resp'.user.role]
              /\ now > resp'.token.payload.exp =>
                     /\ resp'.code = 401
                     /\ UNCHANGED <<db, tokens, now, inflight>>
       /\ (resp'.op = "upload_file" /\ resp'.code = 401
               /\ resp'.token \in tokens) =>
              /\ now >= resp'.token.payload.exp
              /\ UNCHANGED <<db, tokens, now, inflight>>
       /\ Accepts("upload_file") =>
              /\ now < Accepted.cu.token.payload.exp
              /\ Decoded(Accepted.cu.token, Accepted.cu.user)
       /\ (resp'.op = "upload_file" /\ resp'.code = 200) =>
              Decoded(resp'.token, resp'.user)]_vars

\* a token login handed out was presented after its expiry and rejected,
\* while a later one is still good
C8_Witness ==
    /\ resp.op = "upload_file"
    /\ resp.token \in tokens
    /\ now > resp.token.payload.exp
    /\ resp.code = 401
    /\ \E t \in tokens : t.payload.exp > now

Kept(c) ==
    /\ Len(c') >= Len(c)
    /\ \A i \in DOMAIN c : \E j \in DOMAIN c' : c'[j].id = c[i].id

PaymentsLinked ==
    \A i \in DOMAIN payments : StoredAd(payments[i].ad_request_id)

\* C9: no step removes a document from users, ad_requests, payments,
\* subscriptions or files, and the ad request a payment refers to is stored
\* as long as the payment is.
C9_NothingDeleted ==
    [][/\ Kept(users)
       /\ Kept(ad_requests)
       /\ Kept(payments)
       /\ Kept(subscriptions)
       /\ Kept(files)
       /\ PaymentsLinked
       /\ PaymentsLinked']_vars

\* a client has registered, its ad request has photos and is paid, and the
\* payment of that ad request has a screenshot and is verified
C9_Witness ==
    \E u \in DOMAIN users, i \in DOMAIN payments, j \in DOMAIN ad_requests :
        /\ users[u].role = "client"
        /\ ad_requests[j].client_id = users[u].id
        /\ ad_requests[j].photos # <<>>
        /\ ad_requests[j].status = "paid"
        /\ payments[i].ad_request_id = ad_requests[j].id
        /\ payments[i].screenshot_url # NoUrl
        /\ payments[i].status = "verified"

PaymentConsistent(d) ==
    /\ d.status \in {"pending", "verified"}
    /\ d.verified_at # None <=> d.status = "verified"

\* C10: a payment is "pending" or "verified", it has a verification time
\* exactly when it is "verified", and a "verified" payment stays "verified".
C10_PaymentMonotonic ==
    [][/\ \A i \in DOMAIN payments : PaymentConsistent(payments[i])
       /\ \A i \in DOMAIN payments' : PaymentConsistent(payments'[i])
       /\ \A i \in DOMAIN payments :
              payments[i].status = "verified" =>
                  payments'[i].status = "verified"]_vars

\* a screenshot was attached to a payment that is already verified
C10_Witness ==
    /\ resp.op = "upload_payment_screenshot"
    /\ resp.code = 200
    /\ \E i \in DOMAIN payments :
           payments[i].id = resp.arg /\ payments[i].status = "verified"

====
